---- MODULE Spec2Model ----
(***************************************************************************)
(* Model of MultiPlanarUNet/evaluate/metrics.py.                           *)
(*                                                                         *)
(* The module is a flat collection of metric functions.  The state machine *)
(* is a caller that owns two arrays, calls one function on them and keeps  *)
(* the returned value: one action per function.                            *)
(*                                                                         *)
(* Floating point values are pairs <<n, d>>: the rational n/d with d > 0   *)
(* in lowest terms, NaN == <<0, 0>>, +inf == <<1, 0>>, -inf == <<-1, 0>>.  *)
(* Arithmetic is exact on the rationals and IEEE on the special values;    *)
(* the narrowing store into a float32 array (dice_all) is modelled by      *)
(* AsFloat32, round-to-nearest-even on a 24 bit significand.               *)
(* Boolean arrays are sequences over {0, 1}, as numpy's bool_ is.          *)
(***************************************************************************)
EXTENDS Integers, Sequences, FiniteSets

\* ---------------------------------------------------------------- bounds
MaxLen == 2        \* longest array the caller passes
MaxLabel == 2      \* largest class index / array element
MaxSmooth == 1     \* largest smoothing constant

\* n_classes=None (metrics.py:27); every other value is a class count
None == -1

\* ------------------------------------------------------- float arithmetic
NaN == <<0, 0>>

IsNaN(x) == x = NaN

IsFinite(x) == x[2] > 0

Abs(i) == IF i < 0 THEN -i ELSE i

RECURSIVE Gcd(_, _)
Gcd(a, b) == IF b = 0 THEN a ELSE Gcd(b, a % b)

\* the float n / d of two integers (d >= 0): x/0 is +-inf, 0/0 is NaN
Ratio(n, d) ==
    IF d = 0 THEN <<(IF n > 0 THEN 1 ELSE IF n < 0 THEN -1 ELSE 0), 0>>
    ELSE LET g == Gcd(Abs(n), d) IN <<n \div g, d \div g>>

\* IEEE division x / y of two floats that are NaN or finite and >= 0
FDiv(x, y) ==
    IF IsNaN(x) \/ IsNaN(y) THEN NaN
    ELSE Ratio(x[1] * y[2], y[1] * x[2])

\* IEEE addition and multiplication, same domain
FAdd(x, y) ==
    IF IsNaN(x) \/ IsNaN(y) THEN NaN
    ELSE Ratio(x[1] * y[2] + y[1] * x[2], x[2] * y[2])

FMul(x, y) ==
    IF IsNaN(x) \/ IsNaN(y) THEN NaN
    ELSE Ratio(x[1] * y[1], x[2] * y[2])

FLeq(x, y) == IsFinite(x) /\ IsFinite(y) /\ x[1] * y[2] <= y[1] * x[2]

FLt(x, y) == IsFinite(x) /\ IsFinite(y) /\ x[1] * y[2] < y[1] * x[2]

Zero == <<0, 1>>
One == <<1, 1>>

RECURSIVE Pow2(_)
Pow2(k) == IF k = 0 THEN 1 ELSE 2 * Pow2(k - 1)

\* least k >= 0 with n * 2^k >= d  (n > 0)
RECURSIVE ShiftUp(_, _, _)
ShiftUp(n, d, k) == IF n * Pow2(k) >= d THEN k ELSE ShiftUp(n, d, k + 1)

\* greatest k >= 0 with d * 2^k <= n  (n >= d > 0)
RECURSIVE ShiftDown(_, _, _)
ShiftDown(n, d, k) == IF d * Pow2(k + 1) > n THEN k ELSE ShiftDown(n, d, k + 1)

\* a / b rounded to the nearest integer, ties to even (a >= 0, b > 0)
RoundHalfEven(a, b) ==
    LET q == a \div b
        r == a % b
    IN  IF 2 * r < b THEN q
        ELSE IF 2 * r > b THEN q + 1
        ELSE IF q % 2 = 0 THEN q ELSE q + 1

Mantissa == 23      \* explicit significand bits of an IEEE binary32

\* the value of a non-negative float64 stored into a float32 slot
AsFloat32(x) ==
    IF ~IsFinite(x) \/ x[1] = 0 THEN x
    ELSE IF x[1] < x[2]
         THEN LET k == ShiftUp(x[1], x[2], 0)
              IN  Ratio(RoundHalfEven(x[1] * Pow2(k + Mantissa), x[2]),
                        Pow2(k + Mantissa))
         ELSE LET k == ShiftDown(x[1], x[2], 0)
                  m == RoundHalfEven(x[1] * Pow2(Mantissa), x[2] * Pow2(k))
              IN  Ratio(m * Pow2(k), Pow2(Mantissa))

\* ------------------------------------------------------------ array helpers
RECURSIVE SumSeq(_)
SumSeq(s) == IF s = <<>> THEN 0 ELSE Head(s) + SumSeq(Tail(s))

\* .astype(np.bool): non-zero -> True
AsBool(s) == [i \in 1..Len(s) |-> IF s[i] # 0 THEN 1 ELSE 0]

\* np.logical_and, element-wise
LogicalAnd(s1, s2) == [i \in 1..Len(s1) |-> IF s1[i] = 1 /\ s2[i] = 1 THEN 1 ELSE 0]

\* y == _class, element-wise
EqualTo(y, c) == [i \in 1..Len(y) |-> IF y[i] = c THEN 1 ELSE 0]

\* np.any
Any(s) == \E i \in 1..Len(s) : s[i] # 0

Min(S) == CHOOSE x \in S : \A y \in S : x <= y

\* the elements of a finite set of integers in ascending order
RECURSIVE Ascending(_)
Ascending(S) == IF S = {} THEN <<>> ELSE <<Min(S)>> \o Ascending(S \ {Min(S)})

\* variant: the array itself, neither sorted nor deduplicated
Unique_keepsDuplicates(y) == y

\* np.unique: the sorted distinct elements
Unique(y) == Ascending({y[i] : i \in 1..Len(y)})

\* np.arange(n)
Arange(n) == [i \in 1..n |-> i - 1]

\* classes[np.where(classes != 0)]
RECURSIVE DropZero(_)
DropZero(s) ==
    IF s = <<>> THEN <<>>
    ELSE IF Head(s) # 0 THEN <<Head(s)>> \o DropZero(Tail(s))
    ELSE DropZero(Tail(s))

\* ------------------------------------------------------------------- dice
\* variant: the smoothing constant only in the denominator
dice_noSmoothInNumerator(y_true, y_pred, smooth) ==
    LET s1 == AsBool(y_true)
        s2 == AsBool(y_pred)
    IN  Ratio(2 * SumSeq(LogicalAnd(s1, s2)), smooth + SumSeq(s1) + SumSeq(s2))

\* variant: the denominator counts s1 twice instead of s1 and s2
dice_asymmetric(y_true, y_pred, smooth) ==
    LET s1 == AsBool(y_true)
        s2 == AsBool(y_pred)
    IN  Ratio(smooth + 2 * SumSeq(LogicalAnd(s1, s2)), smooth + 2 * SumSeq(s1))

dice(y_true, y_pred, smooth) ==
    LET s1 == AsBool(y_true)
        s2 == AsBool(y_pred)
    IN  Ratio(smooth + 2 * SumSeq(LogicalAnd(s1, s2)),
              smooth + SumSeq(s1) + SumSeq(s2))

\* --------------------------------------------------------------- dice_all
\* variant: n_classes = 1 is not replaced by 2
dice_all_classes_noAlias(y_true, n_classes, ignore_zero) ==
    LET classes == IF n_classes = None THEN Unique(y_true) ELSE Arange(n_classes)
    IN  IF ignore_zero THEN DropZero(classes) ELSE classes

dice_all_classes(y_true, n_classes, ignore_zero) ==
    LET classes == IF n_classes = None THEN Unique(y_true)
                   ELSE Arange(IF n_classes = 1 THEN 2 ELSE n_classes)
    IN  IF ignore_zero THEN DropZero(classes) ELSE classes

\* variant: dice is computed also when both masks are empty
dice_all_entry_noAnyGuard(y_true, y_pred, smooth, skip_if_no_y, c) ==
    LET s1 == EqualTo(y_true, c)
        s2 == EqualTo(y_pred, c)
    IN  IF skip_if_no_y /\ ~Any(s1) THEN NaN
        ELSE AsFloat32(dice(s1, s2, smooth))

dice_all_entry(y_true, y_pred, smooth, skip_if_no_y, c) ==
    LET s1 == EqualTo(y_true, c)
        s2 == EqualTo(y_pred, c)
    IN  IF skip_if_no_y /\ ~Any(s1) THEN NaN
        ELSE IF Any(s1) \/ Any(s2) THEN AsFloat32(dice(s1, s2, smooth))
        ELSE NaN

dice_all(y_true, y_pred, smooth, n_classes, ignore_zero, skip_if_no_y) ==
    LET classes == dice_all_classes(y_true, n_classes, ignore_zero)
    IN  [idx \in 1..Len(classes) |->
            dice_all_entry(y_true, y_pred, smooth, skip_if_no_y, classes[idx])]

\* --------------------------------------------------------- float arrays
RECURSIVE FSum(_)
FSum(s) == IF s = <<>> THEN Zero ELSE FAdd(Head(s), FSum(Tail(s)))

\* tf.reduce_sum / tf.reduce_mean of a float vector; the mean of nothing is 0/0
reduce_sum(s) == FSum(s)

reduce_mean(s) == FDiv(FSum(s), Ratio(Len(s), 1))

\* tf.multiply, element-wise
Multiply(a, b) == [i \in 1..Len(a) |-> FMul(a[i], b[i])]

\* tf.round / np.round: to the nearest integer, halves to the even one
Round(a) == [i \in 1..Len(a) |-> Ratio(RoundHalfEven(a[i][1], a[i][2]), 1)]

\* tf.cast(tf.logical_not(tf.cast(y, tf.bool)), tf.float32)
NotTrue(y) == [i \in 1..Len(y) |-> IF y[i] # Zero THEN Zero ELSE One]

\* tf.argmax(row): the first index (from 0) holding the largest value
argmax(row) ==
    CHOOSE j \in 0..(Len(row) - 1) :
        /\ \A k \in 0..(Len(row) - 1) : FLeq(row[k + 1], row[j + 1])
        /\ \A k \in 0..(j - 1) : FLt(row[k + 1], row[j + 1])

\* tf.argmax(y, axis=-1) flattened: one hard label per position
ArgmaxRows(y) == [i \in 1..Len(y) |-> argmax(y[i])]

\* tf.boolean_mask(y, mask)
RECURSIVE boolean_mask(_, _)
boolean_mask(y, mask) ==
    IF y = <<>> THEN <<>>
    ELSE (IF Head(mask) THEN <<Head(y)>> ELSE <<>>)
         \o boolean_mask(Tail(y), Tail(mask))

\* tf.cast(tf.equal(a, b), tf.float32)
EqualAsFloat(a, b) == [i \in 1..Len(a) |-> IF a[i] = b[i] THEN One ELSE Zero]

\* --------------------------------------------------------- one_class_dice
one_class_dice(y_true, y_pred, smooth) ==
    LET pred == [i \in 1..Len(y_pred) |->
                    IF FLt(<<1, 2>>, y_pred[i]) THEN One ELSE Zero]
        s == Ratio(smooth, 1)
    IN  FDiv(FAdd(s, FMul(<<2, 1>>, reduce_sum(Multiply(y_true, pred)))),
             FAdd(FAdd(s, reduce_sum(y_true)), reduce_sum(pred)))

\* ------------------------------------------------------ precision, recall
\* variant: the denominator is the number of true positions
precision_relevantDenominator(y_true, y_pred) ==
    LET pred == Round(y_pred)
        tp == reduce_sum(Multiply(y_true, pred))
    IN  FDiv(tp, reduce_sum(y_true))

precision(y_true, y_pred) ==
    LET pred == Round(y_pred)
        tp == reduce_sum(Multiply(y_true, pred))
        fp == reduce_sum(Multiply(NotTrue(y_true), pred))
    IN  FDiv(tp, FAdd(tp, fp))

recall(y_true, y_pred) ==
    LET pred == Round(y_pred)
        tp == reduce_sum(Multiply(y_true, pred))
        relevant == reduce_sum(y_true)
    IN  FDiv(tp, relevant)

\* ------------------------------------------- foreground-masked accuracies
\* variant: the mask is taken from the predicted labels
sparse_fg_recall_predMask(y_true, y_pred, bg_class) ==
    LET p == ArgmaxRows(y_pred)
        mask == [i \in 1..Len(p) |-> p[i] # bg_class]
    IN  reduce_mean(EqualAsFloat(boolean_mask(y_true, mask), boolean_mask(p, mask)))

\* variant: an empty foreground is reported as 0
sparse_fg_recall_zeroWhenEmpty(y_true, y_pred, bg_class) ==
    LET p == ArgmaxRows(y_pred)
        mask == [i \in 1..Len(y_true) |-> y_true[i] # bg_class]
        eq == EqualAsFloat(boolean_mask(y_true, mask), boolean_mask(p, mask))
    IN  IF eq = <<>> THEN Zero ELSE reduce_mean(eq)

sparse_fg_recall(y_true, y_pred, bg_class) ==
    LET p == ArgmaxRows(y_pred)
        mask == [i \in 1..Len(y_true) |-> y_true[i] # bg_class]
    IN  reduce_mean(EqualAsFloat(boolean_mask(y_true, mask), boolean_mask(p, mask)))

fg_recall(y_true, y_pred, bg_class) ==
    sparse_fg_recall(ArgmaxRows(y_true), y_pred, bg_class)

sparse_fg_precision(y_true, y_pred, bg_class) ==
    LET p == ArgmaxRows(y_pred)
        mask == [i \in 1..Len(p) |-> p[i] # bg_class]
    IN  reduce_mean(EqualAsFloat(boolean_mask(y_true, mask), boolean_mask(p, mask)))

fg_precision(y_true, y_pred, bg_class) ==
    sparse_fg_precision(ArgmaxRows(y_true), y_pred, bg_class)

\* ------------------------------------------- confusion-matrix metrics
MaxOf(y) == CHOOSE m \in {y[i] : i \in 1..Len(y)} : \A i \in 1..Len(y) : y[i] <= m

\* tf.confusion_matrix(labels, predictions), num_classes left to default:
\* a square matrix over 0 .. max(labels, predictions)
confusion_matrix(labels, predictions) ==
    LET top == IF MaxOf(labels) >= MaxOf(predictions)
               THEN MaxOf(labels) ELSE MaxOf(predictions)
    IN  [i \in 0..top |-> [j \in 0..top |->
            Cardinality({k \in 1..Len(labels) :
                            labels[k] = i /\ predictions[k] = j})]]

NumClasses(cm) == Cardinality(DOMAIN cm)

\* tf.diag_part
diag_part(cm) == [c \in DOMAIN cm |-> cm[c][c]]

RECURSIVE SumTo(_, _)
SumTo(f, n) == IF n < 0 THEN 0 ELSE f[n] + SumTo(f, n - 1)

\* tf.reduce_sum(cm, axis=0): column sums; axis=1: row sums
ColumnSums(cm) == [c \in DOMAIN cm |->
                      SumTo([i \in DOMAIN cm |-> cm[i][c]], NumClasses(cm) - 1)]

RowSums(cm) == [c \in DOMAIN cm |-> SumTo(cm[c], NumClasses(cm) - 1)]

\* TP / sums: int32 / int32 is a true division in floating point
Precisions(cm) == [c \in DOMAIN cm |-> Ratio(diag_part(cm)[c], ColumnSums(cm)[c])]

Recalls(cm) == [c \in DOMAIN cm |-> Ratio(diag_part(cm)[c], RowSums(cm)[c])]

\* variant: an undefined F1 is counted as 0
F1s_zeroForNaN(cm) ==
    [c \in DOMAIN cm |->
        LET f == FDiv(FMul(FMul(<<2, 1>>, Precisions(cm)[c]), Recalls(cm)[c]),
                      FAdd(Precisions(cm)[c], Recalls(cm)[c]))
        IN  IF IsNaN(f) THEN Zero ELSE f]

F1s(cm) ==
    [c \in DOMAIN cm |->
        FDiv(FMul(FMul(<<2, 1>>, Precisions(cm)[c]), Recalls(cm)[c]),
             FAdd(Precisions(cm)[c], Recalls(cm)[c]))]

\* v[1:] as a sequence
Foreground(v) == [i \in 1..(Cardinality(DOMAIN v) - 1) |-> v[i]]

sparse_mean_fg_f1(y_true, y_pred) ==
    reduce_mean(Foreground(F1s(confusion_matrix(y_true, ArgmaxRows(y_pred)))))

sparse_mean_fg_precision(y_true, y_pred) ==
    reduce_mean(Foreground(Precisions(confusion_matrix(y_true, ArgmaxRows(y_pred)))))

sparse_mean_fg_recall(y_true, y_pred) ==
    reduce_mean(Foreground(Recalls(confusion_matrix(y_true, ArgmaxRows(y_pred)))))

\* ---------------------------------------------------- np_pr_class_entropy
Epsilon == <<1, 10000000>>
OneMinusEpsilon == <<9999999, 10000000>>

\* output / np.sum(output, -1, keepdims=True): every row divided by its sum
Normalized(output) ==
    [i \in 1..Len(output) |->
        [j \in 1..Len(output[i]) |-> FDiv(output[i][j], FSum(output[i]))]]

\* np.clip(x, epsilon, 1 - epsilon); NaN stays NaN
Clip(x) ==
    IF IsNaN(x) THEN x
    ELSE IF FLt(x, Epsilon) THEN Epsilon
    ELSE IF FLt(OneMinusEpsilon, x) THEN OneMinusEpsilon
    ELSE x

\* The returned vector, one entry per class c: -mean_i(onehot[i][c] * log(q[i][c]))
\* kept as the number of samples and the arguments q of the logarithms whose
\* product with the one-hot target is not an exact 0.
np_pr_class_entropy(target, output, n_classes) ==
    LET q == [i \in 1..Len(output) |->
                [j \in 1..n_classes |-> Clip(Normalized(output)[i][j])]]
        keep(c) == [i \in 1..Len(output) |->
                       target[i] = c \/ IsNaN(q[i][c + 1])]
    IN  [c \in 0..(n_classes - 1) |->
            [samples |-> Len(output),
             logs |-> boolean_mask([i \in 1..Len(output) |-> q[i][c + 1]], keep(c))]]

\* what the caller's output array holds after the call: `output /= ...` writes
\* through the reshaped array, which shares the caller's buffer when reshape
\* returned a view
np_pr_class_entropy_output(output, view) ==
    IF view THEN Normalized(output) ELSE output

\* ------------------------------------------------------------------ state
VARIABLES
    pc,         \* "idle" before the call, "done" after it returned
    fn,         \* the function that was called
    y_true,     \* first argument as the caller passed it
    y_pred,     \* second argument as the caller passed it
    kw,         \* the remaining arguments
    mem_true,   \* contents of the caller's first array after the call
    mem_pred,   \* contents of the caller's second array after the call
    result      \* the returned value

vars == <<pc, fn, y_true, y_pred, kw, mem_true, mem_pred, result>>

NoKw == [smooth |-> 0, n_classes |-> None, ignore_zero |-> FALSE,
         skip_if_no_y |-> FALSE, bg_class |-> 0, view |-> FALSE]

Labels == 0..MaxLabel

\* arrays of n class indices
ArraysOfLen(n) == [1..n -> Labels]

Lens == 0..MaxLen

Init ==
    /\ pc = "idle"
    /\ fn = "none"
    /\ y_true = <<>>
    /\ y_pred = <<>>
    /\ kw = NoKw
    /\ mem_true = <<>>
    /\ mem_pred = <<>>
    /\ result = NaN

\* a call that only reads its arguments
PureCall(name, t, p, k, r) ==
    /\ pc' = "done"
    /\ fn' = name
    /\ y_true' = t
    /\ y_pred' = p
    /\ kw' = k
    /\ mem_true' = t
    /\ mem_pred' = p
    /\ result' = r

CallDice ==
    /\ pc = "idle"
    /\ \E n \in Lens : \E t \in ArraysOfLen(n), p \in ArraysOfLen(n) :
         \E smooth \in 0..MaxSmooth :
            PureCall("dice", t, p, [NoKw EXCEPT !.smooth = smooth],
                     dice(t, p, smooth))

CallDiceAll ==
    /\ pc = "idle"
    /\ \E n \in Lens : \E t \in ArraysOfLen(n), p \in ArraysOfLen(n) :
         \E smooth \in 0..MaxSmooth, n_classes \in {None} \cup (1..(MaxLabel + 1)) :
         \E ignore_zero \in BOOLEAN, skip_if_no_y \in BOOLEAN :
            PureCall("dice_all", t, p,
                     [NoKw EXCEPT !.smooth = smooth, !.n_classes = n_classes,
                                  !.ignore_zero = ignore_zero,
                                  !.skip_if_no_y = skip_if_no_y],
                     dice_all(t, p, smooth, n_classes, ignore_zero, skip_if_no_y))

NumLabels == MaxLabel + 1

\* {0., 1.}-valued float arrays, and arrays of probabilities 0, 1/2 and 1
BinaryArrays(n) == [1..n -> {Zero, One}]

HalfArrays(n) == [1..n -> {Zero, <<1, 2>>, One}]

\* rows over the class axis: the one-hot row of every class and the row of
\* all ones (not normalized, every class tied)
OneHot(c) == [j \in 1..NumLabels |-> IF j = c + 1 THEN One ELSE Zero]

Rows == {OneHot(c) : c \in Labels} \cup {[j \in 1..NumLabels |-> One]}

RowArrays(n) == [1..n -> Rows]

CallOneClassDice ==
    /\ pc = "idle"
    /\ \E n \in Lens : \E t \in BinaryArrays(n), p \in HalfArrays(n) :
         \E smooth \in 0..MaxSmooth :
            PureCall("one_class_dice", t, p, [NoKw EXCEPT !.smooth = smooth],
                     one_class_dice(t, p, smooth))

CallPrecision ==
    /\ pc = "idle"
    /\ \E n \in Lens : \E t \in BinaryArrays(n), p \in HalfArrays(n) :
            PureCall("precision", t, p, NoKw, precision(t, p))

CallRecall ==
    /\ pc = "idle"
    /\ \E n \in Lens : \E t \in BinaryArrays(n), p \in HalfArrays(n) :
            PureCall("recall", t, p, NoKw, recall(t, p))

CallSparseFgRecall ==
    /\ pc = "idle"
    /\ \E n \in Lens : \E t \in ArraysOfLen(n), p \in RowArrays(n) :
         \E bg_class \in Labels :
            PureCall("sparse_fg_recall", t, p, [NoKw EXCEPT !.bg_class = bg_class],
                     sparse_fg_recall(t, p, bg_class))

CallFgRecall ==
    /\ pc = "idle"
    /\ \E n \in Lens : \E t \in RowArrays(n), p \in RowArrays(n) :
         \E bg_class \in Labels :
            PureCall("fg_recall", t, p, [NoKw EXCEPT !.bg_class = bg_class],
                     fg_recall(t, p, bg_class))

CallSparseFgPrecision ==
    /\ pc = "idle"
    /\ \E n \in Lens : \E t \in ArraysOfLen(n), p \in RowArrays(n) :
         \E bg_class \in Labels :
            PureCall("sparse_fg_precision", t, p,
                     [NoKw EXCEPT !.bg_class = bg_class],
                     sparse_fg_precision(t, p, bg_class))

CallFgPrecision ==
    /\ pc = "idle"
    /\ \E n \in Lens : \E t \in RowArrays(n), p \in RowArrays(n) :
         \E bg_class \in Labels :
            PureCall("fg_precision", t, p, [NoKw EXCEPT !.bg_class = bg_class],
                     fg_precision(t, p, bg_class))

\* tf.confusion_matrix needs a largest label: at least one position
CallSparseMeanFgF1 ==
    /\ pc = "idle"
    /\ \E n \in 1..MaxLen : \E t \in ArraysOfLen(n), p \in RowArrays(n) :
            PureCall("sparse_mean_fg_f1", t, p, NoKw, sparse_mean_fg_f1(t, p))

CallSparseMeanFgPrecision ==
    /\ pc = "idle"
    /\ \E n \in 1..MaxLen : \E t \in ArraysOfLen(n), p \in RowArrays(n) :
            PureCall("sparse_mean_fg_precision", t, p, NoKw,
                     sparse_mean_fg_precision(t, p))

CallSparseMeanFgRecall ==
    /\ pc = "idle"
    /\ \E n \in 1..MaxLen : \E t \in ArraysOfLen(n), p \in RowArrays(n) :
            PureCall("sparse_mean_fg_recall", t, p, NoKw,
                     sparse_mean_fg_recall(t, p))

\* target: integer labels below n_classes; output: a float array of
\* n_classes columns; view: whether output.reshape(-1, n_classes) shares the
\* caller's buffer (it does for every contiguous array)
CallNpPrClassEntropy ==
    /\ pc = "idle"
    /\ \E n \in 1..MaxLen : \E t \in ArraysOfLen(n), p \in RowArrays(n) :
         \E view \in BOOLEAN :
            /\ pc' = "done"
            /\ fn' = "np_pr_class_entropy"
            /\ y_true' = t
            /\ y_pred' = p
            /\ kw' = [NoKw EXCEPT !.n_classes = NumLabels, !.view = view]
            /\ mem_true' = t
            /\ mem_pred' = np_pr_class_entropy_output(p, view)
            /\ result' = np_pr_class_entropy(t, p, NumLabels)

Next ==
    \/ CallDice
    \/ CallDiceAll
    \/ CallOneClassDice
    \/ CallPrecision
    \/ CallRecall
    \/ CallSparseFgRecall
    \/ CallFgRecall
    \/ CallSparseMeanFgF1
    \/ CallSparseMeanFgPrecision
    \/ CallSparseMeanFgRecall
    \/ CallSparseFgPrecision
    \/ CallFgPrecision
    \/ CallNpPrClassEntropy

Spec == Init /\ [][Next]_vars
\* ===================================================================== claims
Done(name) == pc = "done" /\ fn = name

Occurs(c, y) == \E i \in 1..Len(y) : y[i] = c

InUnitInterval(x) == IsFinite(x) /\ 0 <= x[1] /\ x[1] <= x[2]

InHalfOpenUnitInterval(x) == IsFinite(x) /\ 0 < x[1] /\ x[1] <= x[2]

AllZero(y) == \A i \in 1..Len(y) : y[i] = 0

CalledClasses == dice_all_classes(y_true, kw.n_classes, kw.ignore_zero)

\* C1 as stated: with smooth = 1.0, for every n_classes, ignore_zero and
\* skip_if_no_y, an entry of dice_all is NaN if its class occurs in neither
\* array and a finite value in [0,1] if it occurs in at least one of them.
C1_AsStated ==
    (Done("dice_all") /\ kw.smooth = 1) =>
        /\ Len(result) = Len(CalledClasses)
        /\ \A idx \in 1..Len(result) :
              IF Occurs(CalledClasses[idx], y_true) \/ Occurs(CalledClasses[idx], y_pred)
              THEN InUnitInterval(result[idx])
              ELSE IsNaN(result[idx])

\* C1 amended: with smooth = 1.0, an entry of dice_all is a finite value in
\* [0,1] if its class occurs in y_true, or occurs in y_pred while skip_if_no_y
\* is false; it is NaN otherwise (class in neither array, or skip_if_no_y set
\* and the class absent from y_true even though it is predicted).
C1_EntryNaNOrInUnitInterval ==
    (Done("dice_all") /\ kw.smooth = 1) =>
        /\ Len(result) = Len(CalledClasses)
        /\ \A idx \in 1..Len(result) :
              IF \/ Occurs(CalledClasses[idx], y_true)
                 \/ (~kw.skip_if_no_y /\ Occurs(CalledClasses[idx], y_pred))
              THEN InUnitInterval(result[idx])
              ELSE IsNaN(result[idx])

\* a call with skip_if_no_y whose result holds the entry of a class that is
\* only predicted (NaN), of a class in neither array (NaN) and of a class of
\* y_true (finite)
C1_Witness ==
    /\ Done("dice_all") /\ kw.smooth = 1 /\ kw.skip_if_no_y
    /\ \E idx \in 1..Len(result) :
          /\ ~Occurs(CalledClasses[idx], y_true)
          /\ Occurs(CalledClasses[idx], y_pred)
          /\ IsNaN(result[idx])
    /\ \E idx \in 1..Len(result) :
          /\ ~Occurs(CalledClasses[idx], y_true)
          /\ ~Occurs(CalledClasses[idx], y_pred)
          /\ IsNaN(result[idx])
    /\ \E idx \in 1..Len(result) :
          /\ Occurs(CalledClasses[idx], y_true)
          /\ InUnitInterval(result[idx])

\* C2 as stated: dice returns a value in [0,1] when smooth = 0 and a value in
\* (0,1] when smooth > 0, the all-zero inputs included.
C2_AsStated ==
    Done("dice") =>
        IF kw.smooth = 0 THEN InUnitInterval(result)
        ELSE InHalfOpenUnitInterval(result)

\* C2 amended: dice returns a value in (0,1] when smooth > 0 (all-zero inputs
\* included); when smooth = 0 it returns a value in [0,1] if at least one array
\* has a non-zero element and NaN (0/0) if both arrays are all-zero.
C2_DiceRange ==
    Done("dice") =>
        IF kw.smooth > 0 THEN InHalfOpenUnitInterval(result)
        ELSE IF AllZero(y_true) /\ AllZero(y_pred) THEN IsNaN(result)
        ELSE InUnitInterval(result)

\* dice of two non-empty all-zero arrays without smoothing
C2_Witness ==
    /\ Done("dice") /\ kw.smooth = 0
    /\ Len(y_true) > 0 /\ AllZero(y_true) /\ AllZero(y_pred)
    /\ IsNaN(result)

\* C3: after a call of any function of the module the caller's two arrays hold
\* the values they held when they were passed.
C3_CallerArraysUnchanged ==
    pc = "done" => (mem_true = y_true /\ mem_pred = y_pred)

\* the hard labels of the call's prediction
HardPred == ArgmaxRows(y_pred)

Count(P(_)) == Cardinality({i \in 1..Len(y_true) : P(i)})

\* C4: with at least one unmasked position, sparse_fg_recall equals
\* |{i : t[i] # bg, t[i] = p[i]}| / |{i : t[i] # bg}| and sparse_fg_precision
\* equals |{i : p[i] # bg, t[i] = p[i]}| / |{i : p[i] # bg}|, p the argmax of
\* y_pred along the class axis.
C4_MaskedAgreementRate ==
    /\ (Done("sparse_fg_recall") /\ \E i \in 1..Len(y_true) : y_true[i] # kw.bg_class) =>
          LET fg(i) == y_true[i] # kw.bg_class
              hit(i) == y_true[i] # kw.bg_class /\ y_true[i] = HardPred[i]
          IN  result = Ratio(Count(hit), Count(fg))
    /\ (Done("sparse_fg_precision") /\ \E i \in 1..Len(y_true) : HardPred[i] # kw.bg_class) =>
          LET fg(i) == HardPred[i] # kw.bg_class
              hit(i) == HardPred[i] # kw.bg_class /\ y_true[i] = HardPred[i]
          IN  result = Ratio(Count(hit), Count(fg))

\* a recall of 1/2 on arrays where the predicted-label mask gives another value
C4_Witness ==
    /\ Done("sparse_fg_recall")
    /\ result = <<1, 2>>
    /\ sparse_fg_precision(y_true, y_pred, kw.bg_class) = One

\* C5: when no foreground position remains after masking (true labels all
\* bg_class for sparse_fg_recall / fg_recall, predicted hard labels all
\* bg_class for sparse_fg_precision / fg_precision) the result is NaN.
C5_EmptyMaskGivesNaN ==
    /\ (Done("sparse_fg_recall") /\ \A i \in 1..Len(y_true) : y_true[i] = kw.bg_class)
          => IsNaN(result)
    /\ (Done("fg_recall") /\ \A i \in 1..Len(y_true) : argmax(y_true[i]) = kw.bg_class)
          => IsNaN(result)
    /\ (Done("sparse_fg_precision") /\ \A i \in 1..Len(y_pred) : HardPred[i] = kw.bg_class)
          => IsNaN(result)
    /\ (Done("fg_precision") /\ \A i \in 1..Len(y_pred) : HardPred[i] = kw.bg_class)
          => IsNaN(result)

\* fg_recall on MaxLen positions that are all background in the ground truth
\* and all foreground in the prediction
C5_Witness ==
    /\ Done("fg_recall") /\ Len(y_true) = MaxLen
    /\ \A i \in 1..Len(y_true) :
          argmax(y_true[i]) = kw.bg_class /\ HardPred[i] # kw.bg_class
    /\ IsNaN(result)

\* a prediction in [0,1] rounds to 1 exactly when it exceeds 1/2
RoundsToOne(x) == FLt(<<1, 2>>, x)

ClaimK ==
    1 + (CHOOSE m \in 0..MaxLabel :
            /\ \E i \in 1..Len(y_true) : y_true[i] = m \/ HardPred[i] = m
            /\ \A i \in 1..Len(y_true) : y_true[i] <= m /\ HardPred[i] <= m)

ClaimP(c) ==
    LET diag(i) == y_true[i] = c /\ HardPred[i] = c
        col(i) == HardPred[i] = c
    IN  Ratio(Count(diag), Count(col))

ClaimR(c) ==
    LET diag(i) == y_true[i] = c /\ HardPred[i] = c
        row(i) == y_true[i] = c
    IN  Ratio(Count(diag), Count(row))

ClaimF1(c) ==
    IF /\ IsFinite(ClaimP(c)) /\ ClaimP(c) # Zero
       /\ IsFinite(ClaimR(c)) /\ ClaimR(c) # Zero
    THEN FDiv(FMul(<<2, 1>>, FMul(ClaimP(c), ClaimR(c))), FAdd(ClaimP(c), ClaimR(c)))
    ELSE NaN

RECURSIVE ClaimF1Sum(_)
ClaimF1Sum(c) == IF c = 0 THEN Zero ELSE FAdd(ClaimF1(c), ClaimF1Sum(c - 1))

\* C7: sparse_mean_fg_f1 is the mean over the classes c = 1..K-1 of F1[c],
\* F1[c] = 2pr/(p+r) when p and r are finite and non-zero and NaN otherwise;
\* the mean is NaN as soon as the F1 of one foreground class is NaN (and when
\* there is no foreground class to average).
C7_MeanForegroundF1 ==
    Done("sparse_mean_fg_f1") =>
        IF ClaimK = 1 \/ \E c \in 1..(ClaimK - 1) : IsNaN(ClaimF1(c))
        THEN IsNaN(result)
        ELSE /\ IsFinite(result)
             /\ result = FDiv(ClaimF1Sum(ClaimK - 1), Ratio(ClaimK - 1, 1))

\* two foreground classes, one with a finite F1 and one never predicted
\* correctly: the mean is NaN
C7_Witness ==
    /\ Done("sparse_mean_fg_f1") /\ ClaimK = 3
    /\ IsFinite(ClaimF1(1)) /\ IsNaN(ClaimF1(2))
    /\ IsNaN(result)

\* C8: dice_all(..., n_classes=1) returns the vector that
\* dice_all(..., n_classes=2) returns on the same arguments.
C8_OneClassIsTwoClasses ==
    (Done("dice_all") /\ kw.n_classes = 1) =>
        result = dice_all(y_true, y_pred, kw.smooth, 2, kw.ignore_zero, kw.skip_if_no_y)

\* n_classes = 1 with the background kept: two entries, the foreground one finite
C8_Witness ==
    /\ Done("dice_all") /\ kw.n_classes = 1 /\ ~kw.ignore_zero
    /\ Len(result) = 2 /\ IsFinite(result[2])

\* C9: with smooth = 1.0, dice(A, B) = dice(B, A), and dice(A, A) = 1.0 for
\* every A, the all-false array included.
C9_SymmetricAndReflexive ==
    (Done("dice") /\ kw.smooth = 1) =>
        /\ result = dice(y_pred, y_true, 1)
        /\ (AsBool(y_true) = AsBool(y_pred)) => result = One

\* dice of a non-empty all-false array with itself
C9_Witness ==
    /\ Done("dice") /\ kw.smooth = 1
    /\ Len(y_true) = MaxLen /\ AllZero(y_true) /\ y_pred = y_true
    /\ result = One

Retained == {y_true[i] : i \in 1..Len(y_true)} \ (IF kw.ignore_zero THEN {0} ELSE {})

\* C10: with n_classes=None the classes are the distinct values of y_true in
\* ascending order (without 0 when ignore_zero): the result has one entry per
\* retained class, none for a class that is only predicted, and no entry is
\* NaN, for every smooth >= 0 and either skip_if_no_y.
C10_ClassesFromYTrue ==
    (Done("dice_all") /\ kw.n_classes = None) =>
        /\ {CalledClasses[i] : i \in 1..Len(CalledClasses)} = Retained
        /\ \A i \in 1..Len(CalledClasses), j \in 1..Len(CalledClasses) :
              i < j => CalledClasses[i] < CalledClasses[j]
        /\ Len(result) = Cardinality(Retained)
        /\ \A idx \in 1..Len(result) : ~IsNaN(result[idx])

\* smooth = 0, a class that is only predicted, two retained classes
C10_Witness ==
    /\ Done("dice_all") /\ kw.n_classes = None /\ kw.smooth = 0
    /\ \E c \in Labels : Occurs(c, y_pred) /\ ~Occurs(c, y_true) /\ c # 0
    /\ Len(result) = 2
    /\ \A idx \in 1..Len(result) : IsFinite(result[idx])
====
